---- MODULE Spec2Model ----
(***************************************************************************)
(* Commission / GST engine of the commission-system backend: the           *)
(* calculation rule, the validators, the per-financial-year invoice        *)
(* sequence, the GST filing lock and the transaction request handlers.     *)
(*                                                                         *)
(* Money is held in paise (1/100 of the currency unit), so 0.01 is 1.      *)
(* Percentages and rates are whole percents.  Arithmetic is exact: the     *)
(* IEEE-754 representation error of the JavaScript doubles is not          *)
(* modelled, the rounding of Math.round (half towards +infinity) is.       *)
(***************************************************************************)
EXTENDS Integers, Sequences, FiniteSets, Bags, TLC

VARIABLES
    gstRateEnv,        \* process.env.GST_RATE after parseFloat (NaN when unset)
    defaultPercentEnv, \* process.env.DEFAULT_COMMISSION_PERCENT after parseFloat
    transactions,      \* Transaction collection: _id -> document
    invoiceSeries,     \* InvoiceNumber collection: financialYear -> lastSequenceNumber
    locks,             \* GSTFilingLock collection: set of documents
    auditLog,          \* GSTAuditLog collection: bag of entries
    auditDown,         \* GSTAuditLog.create rejects (the collection cannot be written)
    nextId,            \* the _id the next inserted Transaction gets
    clock,             \* the wall clock (new Date()) read by lockMonth
    reqs,              \* the requests being served: client -> request state
    served,            \* number of requests received so far
    lastResponse,      \* the response sent last
    issued,            \* bag of the strings getNextInvoiceNumber has returned
    allocation,        \* the last call of generateInvoiceNumber (allocator spec)
    runA, runB         \* two evaluations of calculateCommission (calculation spec)

vars == <<gstRateEnv, defaultPercentEnv, transactions, invoiceSeries, locks,
          auditLog, auditDown, nextId, clock, reqs, served, lastResponse, issued, allocation, runA, runB>>

(***************************************************************************)
(* Values                                                                  *)
(***************************************************************************)
\* JavaScript NaN (parseFloat of an unset variable); never a valid amount.
NaN == -1000000
\* JavaScript undefined / null: a field absent from the request body.
None == -2000000

IsNaN(x) == x = NaN

Abs(x) == IF x < 0 THEN -x ELSE x

\* Math.round(num / den) for den > 0: the nearest integer, halves upwards.
MathRound(num, den) == (2 * num + den) \div (2 * den)

(***************************************************************************)
(* Calculation rule and validators (utils/calculateCommission.js,          *)
(* utils/gstValidation.js)                                                 *)
(***************************************************************************)
\* The result of a call that threw.
Threw ==
    [ok |-> FALSE, commissionAmount |-> NaN, gstAmount |-> NaN,
     netIncome |-> NaN, returnAmount |-> NaN]

\* calculateCommission with the return amount taken after the tax as well.
calculateCommission_returnAfterTax(totalReceived, commissionPercent, gstRate) ==
    IF totalReceived <= 0 \/ IsNaN(commissionPercent)
       \/ commissionPercent < 0 \/ commissionPercent > 100
       \/ gstRate < 0 \/ gstRate > 100
    THEN Threw
    ELSE LET tp == totalReceived * commissionPercent
         IN [ok |-> TRUE,
             commissionAmount |-> MathRound(tp, 100),
             gstAmount |-> MathRound(tp * gstRate, 10000),
             netIncome |-> MathRound(100 * tp - tp * gstRate, 10000),
             returnAmount |->
                 MathRound(100 * totalReceived - tp, 100) - MathRound(tp * gstRate, 10000)]

\* calculateCommission(totalReceived, commissionPercent, gstRate).
\* The four amounts are computed from the unrounded intermediates and each is
\* rounded once at the end: with T = totalReceived (paise), p, r in percent,
\*   commission = T*p/100, gst = T*p*r/10000,
\*   netIncome = (100*T*p - T*p*r)/10000, returnAmount = (100*T - T*p)/100.
\* A NaN percentage passes both range tests and makes every amount NaN.
calculateCommission(totalReceived, commissionPercent, gstRate) ==
    IF totalReceived <= 0 THEN Threw
    ELSE IF ~IsNaN(commissionPercent)
            /\ (commissionPercent < 0 \/ commissionPercent > 100) THEN Threw
    ELSE IF gstRate < 0 \/ gstRate > 100 THEN Threw
    ELSE IF IsNaN(commissionPercent) THEN [Threw EXCEPT !.ok = TRUE]
    ELSE LET tp == totalReceived * commissionPercent
         IN [ok |-> TRUE,
             commissionAmount |-> MathRound(tp, 100),
             gstAmount |-> MathRound(tp * gstRate, 10000),
             netIncome |-> MathRound(100 * tp - tp * gstRate, 10000),
             returnAmount |-> MathRound(100 * totalReceived - tp, 100)]

\* validateCalculations accepting a difference of exactly 0.01 (<= for <).
validateCalculations_tolerant(totalReceived, calculations) ==
    /\ Abs(calculations.commissionAmount + calculations.returnAmount
           - totalReceived) <= 1
    /\ Abs(calculations.commissionAmount - calculations.gstAmount
           - calculations.netIncome) <= 1

\* validateCalculations(totalReceived, calculations): both differences must be
\* strictly below 0.01; any comparison with NaN is false.
validateCalculations(totalReceived, calculations) ==
    IF IsNaN(calculations.commissionAmount) THEN FALSE
    ELSE LET sumCheck ==
                 Abs((calculations.commissionAmount + calculations.returnAmount)
                     - totalReceived) < 1
             netCheck ==
                 Abs((calculations.commissionAmount - calculations.gstAmount)
                     - calculations.netIncome) < 1
         IN sumCheck /\ netCheck

\* validateTransactionForGST(transaction): the list of error messages.
validateTransactionForGST(transaction) ==
    (IF transaction.commissionAmount <= 0
        THEN <<"Commission amount must be positive for GST reporting">> ELSE <<>>)
    \o (IF transaction.gstAmount <= 0
        THEN <<"GST amount must be positive for GST reporting">> ELSE <<>>)
    \o (IF transaction.totalReceived = transaction.commissionAmount
        THEN <<"Total received cannot equal commission amount - verify calculation">>
        ELSE <<>>)

\* validateGSTCompliance without the comparison of gstAmount.
ComplianceErrors_noGstCheck(transaction, index) ==
    LET err(field) == <<[transactionIndex |-> index,
                         transactionId |-> transaction._id, field |-> field]>>
    IN (IF transaction.commissionAmount <= 0 THEN err("commissionAmount") ELSE <<>>)
       \o (IF Abs(transaction.netIncome
                  - (transaction.commissionAmount - transaction.gstAmount)) > 1
           THEN err("netIncome") ELSE <<>>)
       \o (IF Abs(transaction.returnAmount
                  - (transaction.totalReceived - transaction.commissionAmount)) > 1
           THEN err("returnAmount") ELSE <<>>)

\* The errors validateGSTCompliance pushes for the transaction at `index`.
\* expectedGST is commissionAmount * 0.18 whatever rate is configured; the
\* comparison |gst - 0.18 c| > 0.01 is taken in 1/100 paise.
ComplianceErrors(transaction, index) ==
    LET err(field) == <<[transactionIndex |-> index,
                         transactionId |-> transaction._id, field |-> field]>>
    IN (IF transaction.commissionAmount <= 0 THEN err("commissionAmount") ELSE <<>>)
       \o (IF Abs(100 * transaction.gstAmount - 18 * transaction.commissionAmount) > 100
           THEN err("gstAmount") ELSE <<>>)
       \o (IF Abs(transaction.netIncome
                  - (transaction.commissionAmount - transaction.gstAmount)) > 1
           THEN err("netIncome") ELSE <<>>)
       \o (IF Abs(transaction.returnAmount
                  - (transaction.totalReceived - transaction.commissionAmount)) > 1
           THEN err("returnAmount") ELSE <<>>)

\* The warnings validateGSTCompliance pushes for the transaction at `index`.
ComplianceWarnings(transaction, index) ==
    IF Abs(transaction.totalReceived - transaction.commissionAmount) < 1
    THEN <<[transactionIndex |-> index, transactionId |-> transaction._id]>>
    ELSE <<>>

\* The loop looking at the first transaction of the batch only.
CollectErrors_firstOnly(batch, index) ==
    IF index > Len(batch) THEN <<>> ELSE ComplianceErrors(batch[index], index - 1)

RECURSIVE CollectErrors(_, _)
CollectErrors(batch, index) ==
    IF index > Len(batch) THEN <<>>
    ELSE ComplianceErrors(batch[index], index - 1) \o CollectErrors(batch, index + 1)

RECURSIVE CollectWarnings(_, _)
CollectWarnings(batch, index) ==
    IF index > Len(batch) THEN <<>>
    ELSE ComplianceWarnings(batch[index], index - 1) \o CollectWarnings(batch, index + 1)

\* validateGSTCompliance(transactions) for an array of transactions.
validateGSTCompliance(batch) ==
    LET errors == CollectErrors(batch, 1)
    IN [isValid |-> Len(errors) = 0,
        errors |-> errors,
        warnings |-> CollectWarnings(batch, 1)]

(***************************************************************************)
(* Financial year and invoice numbers (models/InvoiceNumber.model.js)      *)
(***************************************************************************)
\* String.prototype.slice(-2).
SliceLast2(s) == IF Len(s) <= 2 THEN s ELSE SubSeq(s, Len(s) - 1, Len(s))

RECURSIVE padStart(_, _)
\* String.prototype.padStart(n, '0'): never shortens the string.
padStart(s, n) == IF Len(s) >= n THEN s ELSE padStart("0" \o s, n)

\* The calendar year taken as the financial year in every month.
getFinancialYear_calendarYear(date) ==
    "FY" \o SliceLast2(ToString(date.year))

\* InvoiceNumber.getFinancialYear(date).
getFinancialYear(date) ==
    LET financialYear == IF date.month >= 4 THEN date.year ELSE date.year - 1
    IN "FY" \o SliceLast2(ToString(financialYear))

\* The schema default of InvoiceNumber.prefix.
InvoicePrefix == "INV"

\* findOneAndUpdate without the $inc: the stored counter is returned as found.
IncrementedSequence_noIncrement(series, financialYear) ==
    IF financialYear \in DOMAIN series THEN series[financialYear] ELSE 1

\* The upsert inserting the schema default 0 without incrementing it.
IncrementedSequence_insertsDefault(series, financialYear) ==
    IF financialYear \in DOMAIN series THEN series[financialYear] + 1 ELSE 0

\* The counter after findOneAndUpdate({financialYear}, {$inc: 1}, {upsert, new}):
\* one atomic increment; a missing record is inserted at 0 and incremented.
IncrementedSequence(series, financialYear) ==
    IF financialYear \in DOMAIN series THEN series[financialYear] + 1 ELSE 1

\* The string getNextInvoiceNumber builds from the updated record.
FormatInvoiceNumber(financialYear, lastSequenceNumber) ==
    InvoicePrefix \o "-" \o financialYear \o "-"
        \o padStart(ToString(lastSequenceNumber), 5)

Digits == {"0", "1", "2", "3", "4", "5", "6", "7", "8", "9"}

AllDigits(s) == \A i \in 1..Len(s) : SubSeq(s, i, i) \in Digits

\* /^FY\d{2}$/
MatchesFinancialYear(s) ==
    Len(s) = 4 /\ SubSeq(s, 1, 2) = "FY" /\ AllDigits(SubSeq(s, 3, 4))

\* /^INV-FY\d{2}-\d{5}$/ (Transaction.invoiceNumber, validateInvoiceNumber)
MatchesInvoiceNumber(s) ==
    /\ Len(s) = 14
    /\ SubSeq(s, 1, 4) = "INV-"
    /\ MatchesFinancialYear(SubSeq(s, 5, 8))
    /\ SubSeq(s, 9, 9) = "-"
    /\ AllDigits(SubSeq(s, 10, 14))

(***************************************************************************)
(* Filing lock (models/GSTFilingLock.model.js)                             *)
(***************************************************************************)
\* new Date(year, month - 1, 1)
FirstOfMonth(month, year) == [year |-> year, month |-> month, day |-> 1]

\* The filingPeriod string lockMonth derives.
FilingPeriod(month, year) ==
    getFinancialYear(FirstOfMonth(month, year)) \o "-" \o padStart(ToString(month), 2)

\* The documents matching {financialYear, month, year}.
LockRecords(lockSet, month, year) ==
    {l \in lockSet : /\ l.financialYear = getFinancialYear(FirstOfMonth(month, year))
                     /\ l.month = month
                     /\ l.year = year}

\* isDateLocked matching the financial year and the month but not the year.
isDateLocked_withoutYear(lockSet, date) ==
    \E l \in lockSet : /\ l.financialYear = getFinancialYear(date)
                       /\ l.month = date.month
                       /\ l.isLocked

\* GSTFilingLock.isDateLocked(date) against the collection `lockSet`.
isDateLocked(lockSet, date) ==
    \E l \in lockSet : /\ l.financialYear = getFinancialYear(date)
                       /\ l.month = date.month
                       /\ l.year = date.year
                       /\ l.isLocked

\* The document lockMonth writes.
LockDocument(month, year, lockedBy, now, gstr1FilingDate, gstr3BFilingDate) ==
    [financialYear |-> getFinancialYear(FirstOfMonth(month, year)),
     month |-> month, year |-> year,
     lockedBy |-> lockedBy,
     filingPeriod |-> FilingPeriod(month, year),
     isLocked |-> TRUE,
     lockedAt |-> now,
     gstr1FilingDate |-> gstr1FilingDate,
     gstr3BFilingDate |-> gstr3BFilingDate]

\* The upsert of lockMonth violates the unique filingPeriod index when it has
\* to insert and another period's document carries the same filingPeriod.
LockUpsertConflicts(lockSet, month, year) ==
    /\ LockRecords(lockSet, month, year) = {}
    /\ \E l \in lockSet : l.filingPeriod = FilingPeriod(month, year)

\* lockMonth inserting a document whether or not the period has one.
GSTFilingLock_lockMonth_insert(lockSet, month, year, lockedBy, now, gstr1, gstr3B) ==
    lockSet \cup {LockDocument(month, year, lockedBy, now, gstr1, gstr3B)}

\* lockMonth writing its fields only when it inserts ($setOnInsert): an
\* existing document is locked again and keeps its lockedAt, lockedBy and dates.
GSTFilingLock_lockMonth_setOnInsert(lockSet, month, year, lockedBy, now, gstr1, gstr3B) ==
    IF LockRecords(lockSet, month, year) = {}
    THEN lockSet \cup {LockDocument(month, year, lockedBy, now, gstr1, gstr3B)}
    ELSE (lockSet \ LockRecords(lockSet, month, year))
             \cup {[l EXCEPT !.isLocked = TRUE] : l \in LockRecords(lockSet, month, year)}

\* The collection after GSTFilingLock.lockMonth(month, year, lockedBy, options).
GSTFilingLock_lockMonth(lockSet, month, year, lockedBy, now, gstr1, gstr3B) ==
    (lockSet \ LockRecords(lockSet, month, year))
        \cup {LockDocument(month, year, lockedBy, now, gstr1, gstr3B)}

\* unlockMonth as an upsert: a missing document is inserted unlocked.
GSTFilingLock_unlockMonth_upsert(lockSet, month, year) ==
    IF LockRecords(lockSet, month, year) = {}
    THEN lockSet \cup {[LockDocument(month, year, "", 0, None, None)
                            EXCEPT !.isLocked = FALSE]}
    ELSE (lockSet \ LockRecords(lockSet, month, year))
             \cup {[l EXCEPT !.isLocked = FALSE] : l \in LockRecords(lockSet, month, year)}

\* The collection after GSTFilingLock.unlockMonth(month, year): the matching
\* document, if any, with isLocked false; nothing is inserted.
GSTFilingLock_unlockMonth(lockSet, month, year) ==
    (lockSet \ LockRecords(lockSet, month, year))
        \cup {[l EXCEPT !.isLocked = FALSE] : l \in LockRecords(lockSet, month, year)}

(***************************************************************************)
(* Bounds and inputs                                                       *)
(***************************************************************************)
\* Number of HTTP requests in a run.
MaxReqs == 3

\* The clients: each sends one request at a time and waits for the response,
\* so at most two requests are being served at the same time.
Clients == {"c1", "c2"}

\* Authenticated users; the role of a user is its name.
Users == {"admin", "user"}
\* The users who send transaction requests.
TxnUsers == {"user"}

\* Transaction dates: the last day of FY99, the first day of FY00, and a date
\* a century later whose two-digit financial year is FY00 again.
Dates ==
    {[year |-> 2000, month |-> 3, day |-> 31],
     [year |-> 2000, month |-> 4, day |-> 1],
     [year |-> 2100, month |-> 4, day |-> 1]}

NoDate == [year |-> 0, month |-> 0, day |-> 0]

\* (month, year) pairs of lock and unlock requests.
Periods == {<<d.month, d.year>> : d \in Dates}

\* Transaction ids a PUT or DELETE may name.
Ids == 1..MaxReqs

\* Request bodies of POST /transactions: <<totalReceived, commissionPercent>>.
CreateInputs ==
    {<<1000000, 1>>, <<1000000, None>>, <<150, 1>>, <<1000000, 0>>,
     <<0, 1>>, <<500000, 150>>}

\* Request bodies of PUT /transactions/:id: <<date, totalReceived, commissionPercent>>.
UpdateInputs ==
    {<<d, None, None>> : d \in Dates}
        \cup {<<NoDate, 2000000, None>>, <<NoDate, None, 2>>, <<NoDate, 150, None>>}

\* Who sends a lock request and the gstr1FilingDate of its body (a day
\* number; None when omitted): <<user, gstr1FilingDate>>.
LockInputs == {<<"admin", None>>, <<"user", 20>>}

\* Values of the two environment variables after parseFloat.
GstRateEnvValues == {NaN, 0, 5, 18}
DefaultPercentEnvValues == {NaN, 1}

NoDoc ==
    [_id |-> 0, date |-> NoDate, totalReceived |-> 0, commissionPercent |-> 0,
     commissionAmount |-> 0, gstAmount |-> 0, netIncome |-> 0, returnAmount |-> 0,
     createdBy |-> "", invoiceNumber |-> "", financialYear |-> ""]

IdleReq ==
    [op |-> "none", pc |-> "idle", user |-> "", id |-> 0, date |-> NoDate,
     total |-> None, percent |-> None, gstr1 |-> None,
     txDate |-> NoDate, doc |-> NoDoc, invoiceNumber |-> ""]

NoResponse ==
    [op |-> "none", status |-> 0, code |-> "", invoiceNumber |-> "",
     period |-> <<0, 0>>, total |-> None, percent |-> None,
     errors |-> <<>>, figures |-> <<>>]

\* parseFloat(process.env.GST_RATE) || 18: NaN and 0 are both falsy.
GstRate == IF IsNaN(gstRateEnv) \/ gstRateEnv = 0 THEN 18 ELSE gstRateEnv

\* A request can be received by an idle client; c1 is taken first, so that
\* runs differing only in the naming of the clients are explored once.
CanStart(c) ==
    /\ served < MaxReqs
    /\ reqs[c].pc = "idle"
    /\ IF c = "c1" THEN TRUE ELSE reqs["c1"].pc # "idle"

\* The response of request q: what the client sees, with the period a lock,
\* unlock or report response names and the body fields a create response
\* answers; a report response adds its errors or its figures.
Response(q, status, code) ==
    [op |-> q.op, status |-> status, code |-> code,
     invoiceNumber |-> IF status = 201 /\ q.op = "create" THEN q.invoiceNumber ELSE "",
     period |-> IF q.op \in {"lock", "unlock", "summary", "export"}
                THEN <<q.date.month, q.date.year>> ELSE <<0, 0>>,
     total |-> IF q.op = "create" THEN q.total ELSE None,
     percent |-> IF q.op = "create" THEN q.percent ELSE None,
     errors |-> <<>>, figures |-> <<>>]

\* The entry GSTAuditLog.createLog is given.
AuditEntry(action, user, entityId, date, status, invoiceNumber, operation) ==
    [action |-> action, performedBy |-> user, entityId |-> entityId,
     month |-> date.month, year |-> date.year, status |-> status,
     invoiceNumber |-> invoiceNumber, operation |-> operation]

\* createLog keeping the entries of successful operations only.
createLog_successOnly(log, entry) ==
    IF auditDown \/ entry.status # "SUCCESS" THEN log ELSE log (+) SetToBag({entry})

\* GSTAuditLog.createLog: this.create adds one entry to the collection, or
\* rejects and adds nothing.
createLog(log, entry) == IF auditDown THEN log ELSE log (+) SetToBag({entry})

\* What a handler answers after `await GSTAuditLog.createLog(...)`: its own
\* response, or, when createLog rejected, what its catch hands to the error
\* handler through next(err).
AfterLog(q, response) == IF auditDown THEN Response(q, 500, "ERROR") ELSE response

\* No call of generateInvoiceNumber recorded yet.
NoAllocation == [date |-> NoDate, financialYear |-> "", invoiceNumber |-> ""]

\* No evaluation recorded yet.
NoRun == [done |-> FALSE, total |-> 0, percent |-> 0, rate |-> 0, out |-> Threw]

InitStores ==
    /\ transactions = <<>>
    /\ invoiceSeries = <<>>
    /\ locks = {}
    /\ auditLog = EmptyBag
    /\ nextId = 1
    /\ clock = 1
    /\ reqs = [c \in Clients |-> IdleReq]
    /\ served = 0
    /\ lastResponse = NoResponse
    /\ issued = EmptyBag
    /\ allocation = NoAllocation
    /\ runA = NoRun
    /\ runB = NoRun

\* The server as configured in the documentation: GST_RATE=18,
\* DEFAULT_COMMISSION_PERCENT=1.
Init ==
    /\ gstRateEnv = 18
    /\ defaultPercentEnv = 1
    /\ auditDown = FALSE
    /\ InitStores

\* The server under any of the configurations.
InitEnv ==
    /\ gstRateEnv \in GstRateEnvValues
    /\ defaultPercentEnv \in DefaultPercentEnvValues
    /\ auditDown = FALSE
    /\ InitStores

\* The documented configuration, with the audit collection writable or not.
InitAudit ==
    /\ gstRateEnv = 18
    /\ defaultPercentEnv = 1
    /\ auditDown \in BOOLEAN
    /\ InitStores

(***************************************************************************)
(* POST /transactions (routes/transaction.routes.js, createTransaction)    *)
(***************************************************************************)
\* createValidation: the body fields the route accepts.
createValidation(total, percent) ==
    /\ total # None /\ total >= 1
    /\ percent = None \/ (percent >= 0 /\ percent <= 100)

\* commissionPercent ?? parseFloat(process.env.DEFAULT_COMMISSION_PERCENT) ?? 1:
\* parseFloat never yields null or undefined, so the last default is dead.
CommissionPercentValue(percent) ==
    IF percent = None THEN defaultPercentEnv ELSE percent

\* createTransaction taking the invoice number first and testing the body and
\* the calculation afterwards.
CreateStart_allocatesFirst(c, user, date, total, percent) ==
    /\ CanStart(c)
    /\ served' = served + 1
    /\ LET started == [IdleReq EXCEPT !.op = "create", !.user = user,
                           !.date = date, !.total = total, !.percent = percent]
           calculations ==
               calculateCommission(total, CommissionPercentValue(percent), GstRate)
           financialYear == getFinancialYear(date)
           sequence == IncrementedSequence(invoiceSeries, financialYear)
           invoiceNumber == FormatInvoiceNumber(financialYear, sequence)
       IN /\ invoiceSeries' =
                  [fy \in DOMAIN invoiceSeries \cup {financialYear} |->
                      IF fy = financialYear THEN sequence ELSE invoiceSeries[fy]]
          /\ issued' = issued (+) SetToBag({invoiceNumber})
          /\ IF ~createValidation(total, percent) \/ ~calculations.ok
                \/ ~validateCalculations(total, calculations)
             THEN /\ lastResponse' = Response(started, 400, "VALIDATION_ERROR")
                  /\ UNCHANGED reqs
             ELSE /\ reqs' = [reqs EXCEPT ![c] =
                          [started EXCEPT !.pc = "persist",
                                          !.invoiceNumber = invoiceNumber]]
                  /\ UNCHANGED lastResponse
    /\ UNCHANGED <<allocation, auditDown, gstRateEnv, defaultPercentEnv, transactions, locks, auditLog,
                   nextId, clock, runA, runB>>

\* The request arrives; the synchronous part of createTransaction runs up to
\* and including the atomic increment behind generateInvoiceNumber.
CreateStart(c, user, date, total, percent) ==
    /\ CanStart(c)
    /\ served' = served + 1
    /\ LET started == [IdleReq EXCEPT !.op = "create", !.user = user,
                           !.date = date, !.total = total, !.percent = percent]
           calculations ==
               calculateCommission(total, CommissionPercentValue(percent), GstRate)
           financialYear == getFinancialYear(date)
           sequence == IncrementedSequence(invoiceSeries, financialYear)
           invoiceNumber == FormatInvoiceNumber(financialYear, sequence)
           reject(status, code) ==
               /\ lastResponse' = Response(started, status, code)
               /\ UNCHANGED <<reqs, invoiceSeries, issued>>
       IN IF ~createValidation(total, percent)
          THEN reject(400, "VALIDATION_ERROR")
          ELSE IF ~calculations.ok
          THEN reject(500, "ERROR")
          ELSE IF ~validateCalculations(total, calculations)
          THEN reject(400, "CALCULATION_VALIDATION_FAILED")
          ELSE /\ invoiceSeries' =
                       [fy \in DOMAIN invoiceSeries \cup {financialYear} |->
                           IF fy = financialYear THEN sequence ELSE invoiceSeries[fy]]
               /\ issued' = issued (+) SetToBag({invoiceNumber})
               /\ reqs' = [reqs EXCEPT ![c] =
                       [started EXCEPT !.pc = "persist",
                                       !.invoiceNumber = invoiceNumber]]
               /\ UNCHANGED lastResponse
    /\ UNCHANGED <<allocation, auditDown, gstRateEnv, defaultPercentEnv, transactions, locks, auditLog,
                   nextId, clock, runA, runB>>

\* The document createTransaction hands to Transaction.create.
NewTransaction(q, id) ==
    LET calculations ==
            calculateCommission(q.total, CommissionPercentValue(q.percent), GstRate)
    IN [_id |-> id, date |-> q.date, totalReceived |-> q.total,
        commissionPercent |-> CommissionPercentValue(q.percent),
        commissionAmount |-> calculations.commissionAmount,
        gstAmount |-> calculations.gstAmount,
        netIncome |-> calculations.netIncome,
        returnAmount |-> calculations.returnAmount,
        createdBy |-> q.user, invoiceNumber |-> q.invoiceNumber,
        financialYear |-> getFinancialYear(q.date)]

\* The schema validators and the unique index of the Transaction collection.
TransactionSchemaAccepts(doc, collection) ==
    /\ doc.totalReceived >= 1
    /\ doc.commissionPercent >= 0 /\ doc.commissionPercent <= 100
    /\ doc.commissionAmount >= 0
    /\ doc.gstAmount >= 0
    /\ doc.returnAmount >= 0
    /\ MatchesInvoiceNumber(doc.invoiceNumber)
    /\ MatchesFinancialYear(doc.financialYear)
    /\ \A i \in DOMAIN collection :
           i # doc._id => collection[i].invoiceNumber # doc.invoiceNumber

\* createTransaction giving the number back when it fails after the allocation.
CreatePersist_releasesNumber(c) ==
    /\ reqs[c].op = "create" /\ reqs[c].pc = "persist"
    /\ reqs' = [reqs EXCEPT ![c] = IdleReq]
    /\ LET doc == NewTransaction(reqs[c], nextId)
       IN IF Len(validateTransactionForGST(doc)) > 0
          THEN /\ lastResponse' = Response(reqs[c], 400, "GST_VALIDATION_FAILED")
               /\ invoiceSeries' = [invoiceSeries EXCEPT ![doc.financialYear] = @ - 1]
               /\ UNCHANGED <<transactions, auditLog, nextId>>
          ELSE IF ~TransactionSchemaAccepts(doc, transactions)
          THEN /\ lastResponse' = Response(reqs[c], 500, "ERROR")
               /\ invoiceSeries' = [invoiceSeries EXCEPT ![doc.financialYear] = @ - 1]
               /\ UNCHANGED <<transactions, auditLog, nextId>>
          ELSE /\ transactions' =
                       [i \in DOMAIN transactions \cup {doc._id} |->
                           IF i = doc._id THEN doc ELSE transactions[i]]
               /\ nextId' = nextId + 1
               /\ UNCHANGED invoiceSeries
               /\ auditLog' = createLog(auditLog,
                       AuditEntry("TRANSACTION_CREATED", reqs[c].user, doc._id,
                                  doc.date, "SUCCESS", doc.invoiceNumber, ""))
               /\ lastResponse' = AfterLog(reqs[c], Response(reqs[c], 201, "CREATED"))
    /\ UNCHANGED <<allocation, auditDown, gstRateEnv, defaultPercentEnv, locks, clock,
                   served, issued, runA, runB>>

\* After the invoice number: validateTransactionForGST, Transaction.create,
\* the audit entry and the response.
CreatePersist(c) ==
    /\ reqs[c].op = "create" /\ reqs[c].pc = "persist"
    /\ reqs' = [reqs EXCEPT ![c] = IdleReq]
    /\ LET doc == NewTransaction(reqs[c], nextId)
       IN IF Len(validateTransactionForGST(doc)) > 0
          THEN /\ lastResponse' = Response(reqs[c], 400, "GST_VALIDATION_FAILED")
               /\ UNCHANGED <<transactions, auditLog, nextId>>
          ELSE IF ~TransactionSchemaAccepts(doc, transactions)
          THEN /\ lastResponse' = Response(reqs[c], 500, "ERROR")
               /\ UNCHANGED <<transactions, auditLog, nextId>>
          ELSE /\ transactions' =
                       [i \in DOMAIN transactions \cup {doc._id} |->
                           IF i = doc._id THEN doc ELSE transactions[i]]
               /\ nextId' = nextId + 1
               /\ auditLog' = createLog(auditLog,
                       AuditEntry("TRANSACTION_CREATED", reqs[c].user, doc._id,
                                  doc.date, "SUCCESS", doc.invoiceNumber, ""))
               /\ lastResponse' = AfterLog(reqs[c], Response(reqs[c], 201, "CREATED"))
    /\ UNCHANGED <<allocation, auditDown, gstRateEnv, defaultPercentEnv, invoiceSeries, locks, clock,
                   served, issued, runA, runB>>

(***************************************************************************)
(* checkFilingLock (middleware/filingLock.middleware.js)                   *)
(***************************************************************************)
\* checkFilingLock taking the date of the request body where there is one.
ModifyStart_readsPatchDate(c, op, user, id, date, total, percent) ==
    /\ CanStart(c)
    /\ served' = served + 1
    /\ LET started == [IdleReq EXCEPT !.op = op, !.user = user, !.id = id,
                           !.date = date, !.total = total, !.percent = percent]
       IN IF id \notin DOMAIN transactions
          THEN /\ lastResponse' = Response(started, 404, "NOT_FOUND")
               /\ UNCHANGED reqs
          ELSE /\ reqs' = [reqs EXCEPT ![c] =
                       [started EXCEPT !.pc = "mwCheck",
                                       !.txDate = IF date # NoDate THEN date
                                                 ELSE transactions[id].date]]
               /\ UNCHANGED lastResponse
    /\ UNCHANGED <<allocation, auditDown, gstRateEnv, defaultPercentEnv, transactions, invoiceSeries,
                   locks, auditLog, nextId, clock, issued, runA, runB>>

\* PUT or DELETE /transactions/:id arrives; checkFilingLock loads the
\* transaction to learn its date.
ModifyStart(c, op, user, id, date, total, percent) ==
    /\ CanStart(c)
    /\ served' = served + 1
    /\ LET started == [IdleReq EXCEPT !.op = op, !.user = user, !.id = id,
                           !.date = date, !.total = total, !.percent = percent]
       IN IF id \notin DOMAIN transactions
          THEN /\ lastResponse' = Response(started, 404, "NOT_FOUND")
               /\ UNCHANGED reqs
          ELSE /\ reqs' = [reqs EXCEPT ![c] =
                       [started EXCEPT !.pc = "mwCheck",
                                       !.txDate = transactions[id].date]]
               /\ UNCHANGED lastResponse
    /\ UNCHANGED <<allocation, auditDown, gstRateEnv, defaultPercentEnv, transactions, invoiceSeries,
                   locks, auditLog, nextId, clock, issued, runA, runB>>

UpdateStart(c, user, id, date, total, percent) ==
    ModifyStart(c, "update", user, id, date, total, percent)

DeleteStart(c, user, id) ==
    ModifyStart(c, "delete", user, id, NoDate, None, None)

\* updateValidation: every field is optional.
updateValidation(total, percent) ==
    /\ total = None \/ total >= 1
    /\ percent = None \/ (percent >= 0 /\ percent <= 100)

\* The lock test comparing the date itself with the first day of a locked month.
checkFilingLock_firstDayOnly(lockSet, transactionDate) ==
    \E l \in lockSet : l.isLocked /\ FirstOfMonth(l.month, l.year) = transactionDate

\* The lock test of checkFilingLock for the date it read.
checkFilingLock(lockSet, transactionDate) == isDateLocked(lockSet, transactionDate)

\* req.method of the two guarded routes.
Method(op) == IF op = "update" THEN "PUT" ELSE "DELETE"

\* checkFilingLock asks isDateLocked about the date it read: a locked period
\* is audited and answered 403 FILING_LOCKED, otherwise the request goes on
\* to the controller.
MwCheck(c) ==
    /\ reqs[c].op \in {"update", "delete"} /\ reqs[c].pc = "mwCheck"
    /\ IF checkFilingLock(locks, reqs[c].txDate)
       THEN /\ auditLog' = createLog(auditLog,
                    AuditEntry("VALIDATION_FAILED", reqs[c].user, reqs[c].id,
                               reqs[c].txDate, "FAILED", "", Method(reqs[c].op)))
            /\ lastResponse' = AfterLog(reqs[c], Response(reqs[c], 403, "FILING_LOCKED"))
            /\ reqs' = [reqs EXCEPT ![c] = IdleReq]
       ELSE IF reqs[c].op = "update"
               /\ ~updateValidation(reqs[c].total, reqs[c].percent)
       THEN /\ lastResponse' = Response(reqs[c], 400, "VALIDATION_ERROR")
            /\ reqs' = [reqs EXCEPT ![c] = IdleReq]
            /\ UNCHANGED auditLog
       ELSE /\ reqs' = [reqs EXCEPT ![c].pc =
                           IF reqs[c].op = "delete" THEN "ctlDelete" ELSE "ctlFetch"]
            /\ UNCHANGED <<auditLog, lastResponse>>
    /\ UNCHANGED <<allocation, auditDown, gstRateEnv, defaultPercentEnv, transactions, invoiceSeries,
                   locks, nextId, clock, served, issued, runA, runB>>

(***************************************************************************)
(* updateTransaction, deleteTransaction (transaction.controller.js)        *)
(***************************************************************************)
\* The in-memory document of updateTransaction after its assignments:
\* the loaded document `doc` merged with the body of request q.
UpdatedTransaction(q, doc) ==
    LET total == IF q.total = None THEN doc.totalReceived ELSE q.total
        percent == IF q.percent = None THEN doc.commissionPercent ELSE q.percent
        calculations == calculateCommission(total, percent, GstRate)
    IN [doc EXCEPT !.date = IF q.date = NoDate THEN doc.date ELSE q.date,
                   !.totalReceived = total,
                   !.commissionPercent = percent,
                   !.commissionAmount = calculations.commissionAmount,
                   !.gstAmount = calculations.gstAmount,
                   !.netIncome = calculations.netIncome,
                   !.returnAmount = calculations.returnAmount]

\* calculateCommission throws inside updateTransaction.
UpdateThrows(q, doc) ==
    LET total == IF q.total = None THEN doc.totalReceived ELSE q.total
        percent == IF q.percent = None THEN doc.commissionPercent ELSE q.percent
    IN ~calculateCommission(total, percent, GstRate).ok

\* updateTransaction loads the document and assigns the new values.
UpdateFetch(c) ==
    /\ reqs[c].op = "update" /\ reqs[c].pc = "ctlFetch"
    /\ IF reqs[c].id \notin DOMAIN transactions
       THEN /\ lastResponse' = Response(reqs[c], 404, "NOT_FOUND")
            /\ reqs' = [reqs EXCEPT ![c] = IdleReq]
       ELSE IF UpdateThrows(reqs[c], transactions[reqs[c].id])
       THEN /\ lastResponse' = Response(reqs[c], 500, "ERROR")
            /\ reqs' = [reqs EXCEPT ![c] = IdleReq]
       ELSE /\ reqs' = [reqs EXCEPT ![c].pc = "save",
                                    ![c].doc = transactions[reqs[c].id]]
            /\ UNCHANGED lastResponse
    /\ UNCHANGED <<allocation, auditDown, gstRateEnv, defaultPercentEnv, transactions, invoiceSeries,
                   locks, auditLog, nextId, clock, served, issued, runA, runB>>

\* The paths updateTransaction assigns.
DocFields ==
    {"date", "totalReceived", "commissionPercent", "commissionAmount",
     "gstAmount", "netIncome", "returnAmount"}

\* transaction.save() writes the paths whose value changed since the load.
SavedDocument(stored, loaded, assigned) ==
    [f \in DOMAIN stored |->
        IF f \in DocFields /\ assigned[f] # loaded[f] THEN assigned[f] ELSE stored[f]]

\* transaction.save(), the audit entry and the response.  Saving changed
\* paths of a document that has been deleted meanwhile fails.
UpdateSave(c) ==
    /\ reqs[c].op = "update" /\ reqs[c].pc = "save"
    /\ reqs' = [reqs EXCEPT ![c] = IdleReq]
    /\ LET id == reqs[c].id
           loaded == reqs[c].doc
           assigned == UpdatedTransaction(reqs[c], loaded)
       IN IF assigned # loaded /\ id \notin DOMAIN transactions
          THEN /\ lastResponse' = Response(reqs[c], 500, "ERROR")
               /\ UNCHANGED <<transactions, auditLog>>
          ELSE /\ transactions' =
                    IF assigned = loaded THEN transactions
                    ELSE [transactions EXCEPT
                             ![id] = SavedDocument(transactions[id], loaded, assigned)]
               /\ auditLog' = createLog(auditLog,
                    AuditEntry("TRANSACTION_UPDATED", reqs[c].user, id, NoDate,
                               "SUCCESS", "", ""))
               /\ lastResponse' = AfterLog(reqs[c], Response(reqs[c], 200, "UPDATED"))
    /\ UNCHANGED <<allocation, auditDown, gstRateEnv, defaultPercentEnv, invoiceSeries, locks, nextId,
                   clock, served, issued, runA, runB>>

\* The collection after Transaction.findByIdAndDelete(id).
findByIdAndDelete(collection, id) ==
    [i \in DOMAIN collection \ {id} |-> collection[i]]

\* deleteTransaction: the document is removed, nothing is logged.
DeleteTransaction(c) ==
    /\ reqs[c].op = "delete" /\ reqs[c].pc = "ctlDelete"
    /\ transactions' = findByIdAndDelete(transactions, reqs[c].id)
    /\ lastResponse' = Response(reqs[c], 200, "DELETED")
    /\ reqs' = [reqs EXCEPT ![c] = IdleReq]
    /\ UNCHANGED <<allocation, auditDown, gstRateEnv, defaultPercentEnv, invoiceSeries, locks, auditLog,
                   nextId, clock, served, issued, runA, runB>>

(***************************************************************************)
(* POST /filing-locks, DELETE /filing-locks/:month/:year                   *)
(* (filingLock.controller.js, routes/filingLock.routes.js)                 *)
(***************************************************************************)
\* lockValidation of the route.
lockValidation(month, year) ==
    month >= 1 /\ month <= 12 /\ year >= 2000 /\ year <= 2100

\* The lock request arrives; the controller first asks isDateLocked and
\* refuses a period that is already locked.
LockStart(c, user, month, year, gstr1) ==
    /\ CanStart(c)
    /\ served' = served + 1
    /\ LET started == [IdleReq EXCEPT !.op = "lock", !.user = user,
                           !.date = FirstOfMonth(month, year), !.gstr1 = gstr1]
       IN IF ~lockValidation(month, year)
          THEN /\ lastResponse' = Response(started, 400, "VALIDATION_ERROR")
               /\ UNCHANGED reqs
          ELSE IF isDateLocked(locks, FirstOfMonth(month, year))
          THEN /\ lastResponse' = Response(started, 400, "ALREADY_LOCKED")
               /\ UNCHANGED reqs
          ELSE /\ reqs' = [reqs EXCEPT ![c] = [started EXCEPT !.pc = "upsert"]]
               /\ UNCHANGED lastResponse
    /\ UNCHANGED <<allocation, auditDown, gstRateEnv, defaultPercentEnv, transactions, invoiceSeries,
                   locks, auditLog, nextId, clock, issued, runA, runB>>

\* GSTFilingLock.lockMonth, the audit entry and the response.
LockUpsert(c) ==
    /\ reqs[c].op = "lock" /\ reqs[c].pc = "upsert"
    /\ reqs' = [reqs EXCEPT ![c] = IdleReq]
    /\ LET month == reqs[c].date.month
           year == reqs[c].date.year
       IN IF LockUpsertConflicts(locks, month, year)
          THEN /\ lastResponse' = Response(reqs[c], 500, "ERROR")
               /\ UNCHANGED <<locks, auditLog, clock>>
          ELSE /\ locks' = GSTFilingLock_lockMonth(locks, month, year, reqs[c].user,
                                                   clock, reqs[c].gstr1, None)
               /\ clock' = clock + 1
               /\ auditLog' = createLog(auditLog,
                    AuditEntry("FILING_LOCKED", reqs[c].user, 0, reqs[c].date,
                               "SUCCESS", "", ""))
               /\ lastResponse' = AfterLog(reqs[c], Response(reqs[c], 201, "LOCKED"))
    /\ UNCHANGED <<allocation, auditDown, gstRateEnv, defaultPercentEnv, transactions, invoiceSeries,
                   nextId, served, issued, runA, runB>>

\* authorize letting every authenticated user through.
authorize_anyUser(user) == user \in Users

\* authorize('admin') of the unlock route.
authorize(user) == user = "admin"

\* The unlock request: authorize, GSTFilingLock.unlockMonth, a null result
\* answered 404, else audit and response.
UnlockMonth(c, user, month, year) ==
    /\ CanStart(c)
    /\ served' = served + 1
    /\ LET started == [IdleReq EXCEPT !.op = "unlock", !.user = user,
                           !.date = FirstOfMonth(month, year)]
       IN IF ~authorize(user)
          THEN /\ lastResponse' = Response(started, 403, "INSUFFICIENT_PERMISSIONS")
               /\ UNCHANGED <<locks, auditLog>>
          ELSE IF LockRecords(GSTFilingLock_unlockMonth(locks, month, year),
                              month, year) = {}
          THEN /\ locks' = GSTFilingLock_unlockMonth(locks, month, year)
               /\ lastResponse' = Response(started, 404, "LOCK_NOT_FOUND")
               /\ UNCHANGED auditLog
          ELSE /\ locks' = GSTFilingLock_unlockMonth(locks, month, year)
               /\ auditLog' = createLog(auditLog,
                    AuditEntry("FILING_UNLOCKED", user, 0,
                               FirstOfMonth(month, year), "SUCCESS", "", ""))
               /\ lastResponse' = AfterLog(started, Response(started, 200, "UNLOCKED"))
    /\ UNCHANGED <<allocation, auditDown, gstRateEnv, defaultPercentEnv, transactions, invoiceSeries,
                   nextId, clock, reqs, issued, runA, runB>>

(***************************************************************************)
(* Excel import and GST reports (transaction.controller.js,                *)
(* report.controller.js, export.controller.js)                             *)
(***************************************************************************)
\* Largest number of documents the imports of a run put in the collection.
MaxBatch == 2

\* A row of an import whose amounts are those of calculateCommission at 18%.
ConsistentRow(date, total, percent) ==
    LET calculations == calculateCommission(total, percent, 18)
    IN [NoDoc EXCEPT !.date = date, !.totalReceived = total,
                     !.commissionPercent = percent,
                     !.commissionAmount = calculations.commissionAmount,
                     !.gstAmount = calculations.gstAmount,
                     !.netIncome = calculations.netIncome,
                     !.returnAmount = calculations.returnAmount]

\* Dates of the imported rows: two adjacent months.
RowDates == {d \in Dates : d.year = 2000}

\* Rows with amounts as computed: 10000.00 and 8.33 at 1%.
ConsistentRows ==
    {ConsistentRow(d, in[1], in[2]) : d \in RowDates, in \in {<<1000000, 1>>, <<833, 1>>}}

\* What the client may have changed gstAmount by: 0.01 either way, or 1.00.
GstChanges == {-1, 1, 100}

\* The rows a client sends to confirm-excel: consistent rows, rows of March
\* whose gstAmount was overwritten, and a row with totalReceived 0.
ImportRows ==
    ConsistentRows
        \cup {[r EXCEPT !.gstAmount = r.gstAmount + ch] :
                  r \in {x \in ConsistentRows : x.date.month = 3}, ch \in GstChanges}
        \cup {[r EXCEPT !.totalReceived = 0] :
                  r \in {x \in ConsistentRows : x.date.month = 3 /\ x.totalReceived = 833}}

\* Request bodies of confirm-excel: one or two rows.
ImportBodies == {<<r>> : r \in ImportRows} \cup {<<r1, r2>> : r1 \in ImportRows, r2 \in ImportRows}

\* The schema validators insertMany applies to a row without invoice number.
ImportSchemaAccepts(doc) ==
    /\ doc.totalReceived >= 1
    /\ doc.commissionPercent >= 0 /\ doc.commissionPercent <= 100
    /\ doc.commissionAmount >= 0
    /\ doc.gstAmount >= 0
    /\ doc.returnAmount >= 0

\* confirmExcelImport: insertMany of the rows as sent; one invalid row and
\* nothing is saved.  No invoice number, no lock test, no audit entry.
ConfirmExcelImport(c, user, rows) ==
    /\ CanStart(c)
    /\ Cardinality(DOMAIN transactions) + Len(rows) <= MaxBatch
    /\ served' = served + 1
    /\ LET started == [IdleReq EXCEPT !.op = "import", !.user = user]
       IN IF \A i \in 1..Len(rows) : ImportSchemaAccepts(rows[i])
          THEN /\ transactions' =
                      [i \in DOMAIN transactions \cup (nextId..(nextId + Len(rows) - 1)) |->
                          IF i \in DOMAIN transactions THEN transactions[i]
                          ELSE [rows[i - nextId + 1] EXCEPT !._id = i, !.createdBy = user]]
               /\ nextId' = nextId + Len(rows)
               /\ lastResponse' = Response(started, 200, "IMPORTED")
          ELSE /\ lastResponse' = Response(started, 500, "IMPORT_FAILED")
               /\ UNCHANGED <<transactions, nextId>>
    /\ UNCHANGED <<allocation, auditDown, gstRateEnv, defaultPercentEnv, invoiceSeries, locks, auditLog,
                   clock, reqs, issued, runA, runB>>

\* The query of a report: <<month, year>>, or <<0, 0>> for no filter.
AllPeriods == <<0, 0>>

Matching(collection, period) ==
    {i \in DOMAIN collection :
        \/ period = AllPeriods
        \/ collection[i].date.month = period[1] /\ collection[i].date.year = period[2]}

RECURSIVE InOrder(_, _)
\* The documents with the given ids, oldest first.
InOrder(collection, ids) ==
    IF ids = {} THEN <<>>
    ELSE LET first == CHOOSE i \in ids : \A j \in ids : i <= j
         IN <<collection[first]>> \o InOrder(collection, ids \ {first})

\* Transaction.find(query).
find(collection, period) == InOrder(collection, Matching(collection, period))

RECURSIVE SumOf(_, _)
SumOf(batch, field) ==
    IF batch = <<>> THEN 0 ELSE batch[1][field] + SumOf(Tail(batch), field)

\* The tax figures of a report over `batch`.
Figures(batch) ==
    [count |-> Len(batch),
     taxableValue |-> SumOf(batch, "commissionAmount"),
     totalGST |-> SumOf(batch, "gstAmount")]

(***************************************************************************)
(* Specification of the request handlers                                   *)
(***************************************************************************)
Next ==
    \/ \E c \in Clients, u \in TxnUsers, d \in Dates, in \in CreateInputs :
           CreateStart(c, u, d, in[1], in[2])
    \/ \E c \in Clients : CreatePersist(c)
    \/ \E c \in Clients, u \in TxnUsers, id \in Ids, in \in UpdateInputs :
           UpdateStart(c, u, id, in[1], in[2], in[3])
    \/ \E c \in Clients, u \in TxnUsers, id \in Ids : DeleteStart(c, u, id)
    \/ \E c \in Clients : MwCheck(c)
    \/ \E c \in Clients : UpdateFetch(c)
    \/ \E c \in Clients : UpdateSave(c)
    \/ \E c \in Clients : DeleteTransaction(c)
    \/ \E c \in Clients, p \in Periods, in \in LockInputs :
           LockStart(c, in[1], p[1], p[2], in[2])
    \/ \E c \in Clients : LockUpsert(c)
    \/ \E c \in Clients, u \in Users, p \in Periods : UnlockMonth(c, u, p[1], p[2])

Spec == Init /\ [][Next]_vars

\* The request handlers under every configuration of the two variables.
SpecEnv == InitEnv /\ [][Next]_vars

\* The request handlers when GSTAuditLog.createLog may reject.
SpecAudit == InitAudit /\ [][Next]_vars

\* The query periods of the reports.
ReportPeriods == {<<d.month, d.year>> : d \in RowDates}

\* A report response: the errors of the validation or the tax figures.
ReportResponse(q, status, code, errors, figures) ==
    [Response(q, status, code) EXCEPT !.errors = errors, !.figures = figures]

\* The query of report request q.
QueryOf(q) == <<q.date.month, q.date.year>>

\* getGSTSummary up to the validation: Transaction.find, validateGSTCompliance;
\* an invalid batch is audited and answered 400 with the errors.
GetGSTSummaryStart(c, user, period) ==
    /\ CanStart(c)
    /\ served' = served + 1
    /\ LET started == [IdleReq EXCEPT !.op = "summary", !.user = user,
                           !.date = IF period = AllPeriods THEN NoDate
                                    ELSE FirstOfMonth(period[1], period[2])]
           validation == validateGSTCompliance(find(transactions, period))
       IN IF ~validation.isValid
          THEN /\ auditLog' = createLog(auditLog,
                      AuditEntry("VALIDATION_FAILED", user, 0, started.date,
                                 "FAILED", "", "GST_SUMMARY"))
               /\ lastResponse' = AfterLog(started,
                      ReportResponse(started, 400, "GST_COMPLIANCE_FAILED",
                                     validation.errors, <<>>))
               /\ UNCHANGED reqs
          ELSE /\ reqs' = [reqs EXCEPT ![c] = [started EXCEPT !.pc = "aggregate"]]
               /\ UNCHANGED <<auditLog, lastResponse>>
    /\ UNCHANGED <<allocation, auditDown, gstRateEnv, defaultPercentEnv, transactions, invoiceSeries,
                   locks, nextId, clock, issued, runA, runB>>

\* getGSTSummary after the validation: the aggregations query the collection
\* again; REPORT_GENERATED is logged and the figures are returned.
GetGSTSummaryAggregate(c) ==
    /\ reqs[c].op = "summary" /\ reqs[c].pc = "aggregate"
    /\ reqs' = [reqs EXCEPT ![c] = IdleReq]
    /\ auditLog' = createLog(auditLog,
           AuditEntry("REPORT_GENERATED", reqs[c].user, 0, reqs[c].date,
                      "SUCCESS", "", "GST_SUMMARY"))
    /\ lastResponse' = AfterLog(reqs[c],
           ReportResponse(reqs[c], 200, "SUMMARY", <<>>,
                          <<Figures(find(transactions, QueryOf(reqs[c])))>>))
    /\ UNCHANGED <<allocation, auditDown, gstRateEnv, defaultPercentEnv, transactions, invoiceSeries,
                   locks, nextId, clock, served, issued, runA, runB>>

\* exportGSTR1: one Transaction.find; no transaction is 404, an invalid batch
\* is audited and answered 400 with the errors, a valid one is exported.  The
\* batch is taken oldest first; the code sorts it by date and invoice number,
\* which permutes the transactionIndex of the errors only.
ExportGSTR1(c, user, period) ==
    /\ CanStart(c)
    /\ served' = served + 1
    /\ LET started == [IdleReq EXCEPT !.op = "export", !.user = user,
                           !.date = FirstOfMonth(period[1], period[2])]
           batch == find(transactions, period)
           validation == validateGSTCompliance(batch)
       IN IF batch = <<>>
          THEN /\ lastResponse' = Response(started, 404, "NO_TRANSACTIONS")
               /\ UNCHANGED auditLog
          ELSE IF ~validation.isValid
          THEN /\ auditLog' = createLog(auditLog,
                      AuditEntry("VALIDATION_FAILED", user, 0, started.date,
                                 "FAILED", "", "GSTR1"))
               /\ lastResponse' = AfterLog(started,
                      ReportResponse(started, 400, "GST_COMPLIANCE_FAILED",
                                     validation.errors, <<>>))
          ELSE /\ auditLog' = createLog(auditLog,
                      AuditEntry("GSTR1_EXPORTED", user, 0, started.date,
                                 "SUCCESS", "", "GSTR1"))
               /\ lastResponse' = AfterLog(started,
                      ReportResponse(started, 200, "EXPORTED", <<>>,
                                     <<Figures(batch)>>))
    /\ UNCHANGED <<allocation, auditDown, gstRateEnv, defaultPercentEnv, transactions, invoiceSeries,
                   locks, nextId, clock, reqs, issued, runA, runB>>

(***************************************************************************)
(* Specification of the imports and the reports over them                  *)
(***************************************************************************)
NextBatch ==
    \/ \E c \in Clients, u \in TxnUsers, rows \in ImportBodies :
           ConfirmExcelImport(c, u, rows)
    \/ \E c \in Clients, u \in TxnUsers, p \in ReportPeriods \cup {AllPeriods} :
           GetGSTSummaryStart(c, u, p)
    \/ \E c \in Clients : GetGSTSummaryAggregate(c)
    \/ \E c \in Clients, u \in TxnUsers, p \in ReportPeriods : ExportGSTR1(c, u, p)

SpecBatch == Init /\ [][NextBatch]_vars

(***************************************************************************)
(* Specification of the invoice number allocator alone: calls of           *)
(* generateInvoiceNumber (utils/invoiceNumber.js) on dates drawn from a     *)
(* bounded set, in a collection that has served earlier allocations.        *)
(***************************************************************************)
\* The number of calls of one run.
MaxAllocations == 2

AllocationYears == {2000, 2009, 2100}

\* The last day of the month (of a year that is not a leap year).
LastDay(month) ==
    IF month = 2 THEN 28 ELSE IF month \in {4, 6, 9, 11} THEN 30 ELSE 31

\* The dates generateInvoiceNumber is called with: the first and the last day
\* of every month of the years.
AllocationDates ==
    {d \in [year : AllocationYears, month : 1..12, day : {1, 28, 30, 31}] :
        d.day \in {1, LastDay(d.month)}}

\* lastSequenceNumber of a financial year after its earlier allocations.
PriorAllocations == {1, 9, 99, 999, 9999, 99998, 99999}

\* The InvoiceNumber collection before the run: empty, or one financial year
\* that has allocated before.
InitInvoice ==
    /\ gstRateEnv = 18
    /\ defaultPercentEnv = 1
    /\ auditDown = FALSE
    /\ transactions = <<>>
    /\ invoiceSeries \in {<<>>} \cup
           {[fy \in {f} |-> n] : f \in {"FY99", "FY00"}, n \in PriorAllocations}
    /\ locks = {}
    /\ auditLog = EmptyBag
    /\ nextId = 1
    /\ clock = 1
    /\ reqs = [c \in Clients |-> IdleReq]
    /\ served = 0
    /\ lastResponse = NoResponse
    /\ issued = EmptyBag
    /\ allocation = NoAllocation
    /\ runA = NoRun
    /\ runB = NoRun

\* generateInvoiceNumber(date): getFinancialYear, then getNextInvoiceNumber
\* increments the counter of the year and formats it.
GenerateInvoiceNumber(date) ==
    /\ BagCardinality(issued) < MaxAllocations
    /\ LET financialYear == getFinancialYear(date)
           sequence == IncrementedSequence(invoiceSeries, financialYear)
           invoiceNumber == FormatInvoiceNumber(financialYear, sequence)
       IN /\ invoiceSeries' =
                 [fy \in DOMAIN invoiceSeries \cup {financialYear} |->
                     IF fy = financialYear THEN sequence ELSE invoiceSeries[fy]]
          /\ issued' = issued (+) SetToBag({invoiceNumber})
          /\ allocation' = [date |-> date, financialYear |-> financialYear,
                            invoiceNumber |-> invoiceNumber]
    /\ UNCHANGED <<auditDown, gstRateEnv, defaultPercentEnv, transactions, locks,
                   auditLog, nextId, clock, reqs, served, lastResponse, runA, runB>>

NextInvoice == \E date \in AllocationDates : GenerateInvoiceNumber(date)

SpecInvoice == InitInvoice /\ [][NextInvoice]_vars

(***************************************************************************)
(* Specification of the calculation rule alone: two evaluations of         *)
(* calculateCommission on inputs drawn from bounded sets.                  *)
(***************************************************************************)
\* Largest totalReceived (paise) of the contiguous input range.
MaxCalcTotal == 14

\* totalReceived: 0.00 .. 0.14, and 1.50, 8.33, 8.34.
CalcTotals == (0..MaxCalcTotal) \cup {150, 833, 834}
CalcPercents == {NaN, 0, 1, 25, 50, 100, 101}
CalcRates == {0, 18, 100, 101}
\* The combinations above and 10000.00 at 1% commission and 18% tax.
CalcInputs == (CalcTotals \X CalcPercents \X CalcRates) \cup {<<1000000, 1, 18>>}

Evaluation(total, percent, rate) ==
    [done |-> TRUE, total |-> total, percent |-> percent, rate |-> rate,
     out |-> calculateCommission(total, percent, rate)]

CalcFirst(total, percent, rate) ==
    /\ ~runA.done
    /\ runA' = Evaluation(total, percent, rate)
    /\ UNCHANGED <<allocation, auditDown, gstRateEnv, defaultPercentEnv, transactions, invoiceSeries,
                   locks, auditLog, nextId, clock, reqs, served, lastResponse,
                   issued, runB>>

CalcSecond(total, percent, rate) ==
    /\ runA.done /\ ~runB.done
    /\ runB' = Evaluation(total, percent, rate)
    /\ UNCHANGED <<allocation, auditDown, gstRateEnv, defaultPercentEnv, transactions, invoiceSeries,
                   locks, auditLog, nextId, clock, reqs, served, lastResponse,
                   issued, runA>>

NextCalc ==
    \/ \E i \in CalcInputs : CalcFirst(i[1], i[2], i[3])
    \/ \E i \in CalcInputs : CalcSecond(i[1], i[2], i[3])

SpecCalc == Init /\ [][NextCalc]_vars

\* The inputs the calculation rule accepts.
ValidRun(run) ==
    /\ run.done
    /\ run.total > 0
    /\ ~IsNaN(run.percent) /\ run.percent >= 0 /\ run.percent <= 100
    /\ run.rate >= 0 /\ run.rate <= 100

(***************************************************************************)
(* Claims                                                                  *)
(***************************************************************************)
\* C1: no two invoice-number allocations return the same string, whatever
\* the interleaving of createTransaction requests and whatever the fiscal
\* years of their dates.
C1_UniqueInvoiceNumbers ==
    /\ \A s \in BagToSet(issued) : CopiesIn(s, issued) = 1
    /\ \A i, j \in DOMAIN transactions :
           i # j => transactions[i].invoiceNumber # transactions[j].invoiceNumber

\* C1 witness: two createTransaction requests in flight together, both
\* holding an allocated number of the same fiscal year.
C1_Witness ==
    /\ \A c \in Clients : reqs[c].op = "create" /\ reqs[c].pc = "persist"
    /\ getFinancialYear(reqs["c1"].date) = getFinancialYear(reqs["c2"].date)

\* Request c passes the lock test of checkFilingLock in this step.
MwCheckStep(c) ==
    /\ reqs[c].op \in {"update", "delete"}
    /\ reqs[c].pc = "mwCheck"
    /\ reqs'[c] # reqs[c]

\* C2: while a period is locked, an update or delete request against a
\* transaction whose stored date (as the request read it) falls in the period
\* is refused with FILING_LOCKED and the stored transactions are unchanged.
C2_LockedRefuses ==
    [][\A c \in Clients :
          (MwCheckStep(c) /\ isDateLocked(locks, reqs[c].txDate))
              => /\ lastResponse' = Response(reqs[c], 403, "FILING_LOCKED")
                 /\ reqs'[c] = IdleReq
                 /\ transactions' = transactions]_vars

\* C2 witness: a delete of a transaction dated on the last day of a locked
\* month has been refused.
C2_Witness ==
    /\ lastResponse.op = "delete"
    /\ lastResponse.code = "FILING_LOCKED"
    /\ \E i \in DOMAIN transactions :
           transactions[i].date.day = 31 /\ isDateLocked(locks, transactions[i].date)

\* C3: a createTransaction request whose date falls in a locked period
\* allocates no invoice number, and none that is being served persists a
\* transaction: it is answered FILING_LOCKED.
C3_CreateRefusedWhenLocked ==
    [][\A c \in Clients :
          /\ (/\ reqs'[c].op = "create" /\ reqs'[c] # reqs[c]
              /\ isDateLocked(locks, reqs'[c].date))
                 => issued' = issued
          /\ (/\ reqs[c].op = "create" /\ reqs[c].pc = "persist" /\ reqs'[c] = IdleReq
              /\ isDateLocked(locks, reqs[c].date))
                 => /\ transactions' = transactions
                    /\ lastResponse'.code = "FILING_LOCKED"]_vars

\* The dates isDateLocked is asked about: the transaction dates and the first
\* day of every period.
ProbeDates == Dates \cup {FirstOfMonth(p[1], p[2]) : p \in Periods}

InPeriod(date, period) == date.month = period[1] /\ date.year = period[2]

\* C4: isDateLocked(d) holds exactly when the one record of d's (fiscal
\* year, month, year) has isLocked = true: it holds for every date of a period
\* right after a lock of the period, not without a record, not after an
\* unlock, and a lock or unlock leaves every other period as it was.
C4_LockState ==
    [][/\ \A d \in ProbeDates :
             /\ Cardinality(LockRecords(locks', d.month, d.year)) <= 1
             /\ isDateLocked(locks', d)
                    <=> \E l \in LockRecords(locks', d.month, d.year) : l.isLocked
       /\ (lastResponse'.code \in {"LOCKED", "UNLOCKED"} /\ locks' # locks)
             => \A d \in ProbeDates :
                   IF InPeriod(d, lastResponse'.period)
                   THEN isDateLocked(locks', d) <=> (lastResponse'.code = "LOCKED")
                   ELSE isDateLocked(locks', d) <=> isDateLocked(locks, d)
       /\ (locks' # locks) => lastResponse'.code \in {"LOCKED", "UNLOCKED"}]_vars

\* C4 witness: one period is locked while another, locked and unlocked
\* again, has a record with isLocked = false.
C4_Witness ==
    /\ \E l \in locks : l.isLocked
    /\ \E l \in locks : ~l.isLocked
    /\ lastResponse.code = "UNLOCKED"

\* A lock request answered in the step that receives it.
LockAnswered ==
    /\ served' = served + 1
    /\ reqs' = reqs
    /\ lastResponse'.op = "lock"

Allocations(financialYear) ==
    LET ofYear == {s \in BagToSet(issued) : SubSeq(s, 5, 8) = financialYear}
    IN BagCardinality([s \in ofYear |-> CopiesIn(s, issued)])

\* C6: for each fiscal year lastSequenceNumber equals the number of
\* allocations made for it; the allocations returned 1, 2, .. in order, and
\* only an allocation changes a counter, raising it by exactly 1.
C6_SequenceCountsAllocations ==
    [][/\ \A fy \in DOMAIN invoiceSeries' : invoiceSeries'[fy] = Allocations(fy)'
       /\ BagToSet(issued') =
              UNION {{FormatInvoiceNumber(fy, n) : n \in 1..invoiceSeries'[fy]} :
                         fy \in DOMAIN invoiceSeries'}
       /\ (invoiceSeries' # invoiceSeries)
              => \E c \in Clients :
                    /\ reqs[c].pc = "idle" /\ reqs'[c].pc = "persist"
                    /\ reqs'[c].invoiceNumber =
                           FormatInvoiceNumber(getFinancialYear(reqs'[c].date),
                               invoiceSeries'[getFinancialYear(reqs'[c].date)])
                    /\ \A fy \in DOMAIN invoiceSeries' :
                           invoiceSeries'[fy] =
                               IF fy = getFinancialYear(reqs'[c].date)
                               THEN (IF fy \in DOMAIN invoiceSeries
                                     THEN invoiceSeries[fy] ELSE 0) + 1
                               ELSE invoiceSeries[fy]]_vars

\* C6 witness: a fiscal year with two allocations, after a delete.
C6_Witness ==
    /\ \E fy \in DOMAIN invoiceSeries : invoiceSeries[fy] = 2
    /\ lastResponse.code = "DELETED"

\* A create request answered in the step that receives it.
CreateAnswered ==
    /\ served' = served + 1
    /\ reqs' = reqs
    /\ lastResponse'.op = "create"

\* A create request taken beyond the calculation by client c in this step.
CreateAccepted(c) == reqs[c].pc = "idle" /\ reqs'[c].op = "create"

\* totalReceived <= 0 or a commissionPercent given outside [0, 100].
InvalidCreateInput(total, percent) ==
    total <= 0 \/ (percent # None /\ (percent < 0 \/ percent > 100))

\* C11: a create with totalReceived <= 0 or commissionPercent outside
\* [0, 100] is rejected in the step that receives it: no sequence number is
\* consumed, no transaction is persisted, no audit entry is written, and no
\* such request is taken further.
C11_InvalidInputNoSideEffect ==
    [][/\ (CreateAnswered
           /\ InvalidCreateInput(lastResponse'.total, lastResponse'.percent))
              => /\ lastResponse'.status >= 400
                 /\ UNCHANGED <<transactions, invoiceSeries, issued, auditLog>>
       /\ \A c \in Clients :
             CreateAccepted(c)
                 => ~InvalidCreateInput(reqs'[c].total, reqs'[c].percent)]_vars

\* C11 witness: a create with commissionPercent 150 was rejected after an
\* invoice number had been allocated to an earlier request.
C11_Witness ==
    /\ lastResponse.op = "create"
    /\ lastResponse.percent > 100
    /\ lastResponse.status >= 400
    /\ issued # EmptyBag

\* The amounts computed for a create body do not add up: commission plus
\* return differs from the total, or net income plus tax from the commission,
\* by 0.01 or more.
CalculationMismatch(total, percent) ==
    LET calculations ==
            calculateCommission(total, CommissionPercentValue(percent), GstRate)
    IN \/ Abs(calculations.commissionAmount + calculations.returnAmount - total) >= 1
       \/ Abs(calculations.commissionAmount - calculations.gstAmount
              - calculations.netIncome) >= 1

\* C12: a create whose computed fields fail validateCalculations is rejected
\* (400) and neither the Transaction collection nor an invoice counter
\* changes; no such request is taken further.
C12_MismatchWritesNothing ==
    [][/\ (/\ CreateAnswered
           /\ ~InvalidCreateInput(lastResponse'.total, lastResponse'.percent)
           /\ CalculationMismatch(lastResponse'.total, lastResponse'.percent))
              => /\ lastResponse'.status = 400
                 /\ lastResponse'.code = "CALCULATION_VALIDATION_FAILED"
                 /\ UNCHANGED <<transactions, invoiceSeries, issued>>
       /\ \A c \in Clients :
             CreateAccepted(c)
                 => ~CalculationMismatch(reqs'[c].total, reqs'[c].percent)]_vars

\* C12 witness: a create was refused for a calculation mismatch while a
\* transaction and its invoice counter existed.
C12_Witness ==
    /\ lastResponse.code = "CALCULATION_VALIDATION_FAILED"
    /\ DOMAIN transactions # {}
    /\ DOMAIN invoiceSeries # {}

\* A report answered in the step that receives it.
ReportAnswered ==
    /\ served' = served + 1
    /\ reqs' = reqs
    /\ lastResponse'.op \in {"summary", "export"}

\* Some transaction of the batch has an error.
BatchHasError(batch) ==
    \E i \in 1..Len(batch) : ComplianceErrors(batch[i], i - 1) # <<>>

\* C13: when any transaction of the batch of a report has an error, isValid
\* is false and the summary or export request is answered with the error
\* list and without tax figures; no such request goes on to the figures.
C13_ErrorsBlockReport ==
    [][/\ (ReportAnswered /\ BatchHasError(find(transactions, lastResponse'.period)))
             => LET validation ==
                        validateGSTCompliance(find(transactions, lastResponse'.period))
                IN /\ ~validation.isValid
                   /\ lastResponse'.status = 400
                   /\ lastResponse'.errors = validation.errors
                   /\ lastResponse'.errors # <<>>
                   /\ lastResponse'.figures = <<>>
       /\ \A c \in Clients :
             (reqs[c].pc = "idle" /\ reqs'[c].op = "summary")
                 => ~BatchHasError(find(transactions, QueryOf(reqs'[c])))
       /\ lastResponse'.figures # <<>> => lastResponse'.errors = <<>>]_vars

\* C13 witness: an export was refused for an error of the second transaction
\* of its batch, the first being without error.
C13_Witness ==
    /\ lastResponse.op = "export"
    /\ lastResponse.status = 400
    /\ lastResponse.figures = <<>>
    /\ Len(lastResponse.errors) > 0
    /\ lastResponse.errors[1].transactionIndex = 1

\* The stored amounts are those calculateCommission gives at 18%.
Consistent(doc) ==
    LET calculations ==
            calculateCommission(doc.totalReceived, doc.commissionPercent, 18)
    IN /\ calculations.ok
       /\ doc.commissionAmount = calculations.commissionAmount
       /\ doc.gstAmount = calculations.gstAmount
       /\ doc.netIncome = calculations.netIncome
       /\ doc.returnAmount = calculations.returnAmount

\* Only gstAmount differs from the computed amounts.
GstOverwritten(doc) ==
    /\ ~Consistent(doc)
    /\ Consistent([doc EXCEPT !.gstAmount =
           calculateCommission(doc.totalReceived, doc.commissionPercent, 18).gstAmount])

\* Exactly the k-th transaction of the batch has its gstAmount overwritten.
OneOverwritten(batch, k) ==
    /\ k \in 1..Len(batch)
    /\ GstOverwritten(batch[k])
    /\ \A i \in 1..Len(batch) : i # k => Consistent(batch[i])

\* The whole collection as a report batch.
StoredBatch == find(transactions, AllPeriods)

ErrorFields(errors) == [i \in 1..Len(errors) |-> errors[i].field]

UnlockAnswered ==
    /\ served' = served + 1
    /\ reqs' = reqs
    /\ lastResponse'.op = "unlock"

\* C15: an unlock of a period without a lock record is answered not found
\* (or refused for the role), no record is created, every lock record stays
\* as it was and nothing is logged; not found is answered in no other case.
C15_UnlockWithoutRecord ==
    [][/\ (/\ UnlockAnswered
           /\ LockRecords(locks, lastResponse'.period[1], lastResponse'.period[2]) = {})
              => /\ lastResponse'.code \in {"LOCK_NOT_FOUND", "INSUFFICIENT_PERMISSIONS"}
                 /\ lastResponse'.status \in {403, 404}
                 /\ locks' = locks
                 /\ auditLog' = auditLog
       /\ (UnlockAnswered /\ lastResponse'.code = "LOCK_NOT_FOUND")
              => /\ lastResponse'.status = 404
                 /\ LockRecords(locks, lastResponse'.period[1],
                                lastResponse'.period[2]) = {}]_vars

\* C15 witness: an unlock was answered not found while another period was
\* locked.
C15_Witness ==
    /\ lastResponse.code = "LOCK_NOT_FOUND"
    /\ \E l \in locks : l.isLocked

\* C16: only the admin role unlocks: an unlock request of another role is
\* refused (403) and changes no lock record; every FILING_UNLOCKED entry of
\* the audit log was written for an admin.
C16_OnlyAdminUnlocks ==
    [][/\ (UnlockAnswered /\ lastResponse'.code = "INSUFFICIENT_PERMISSIONS")
              => /\ lastResponse'.status = 403
                 /\ locks' = locks
       /\ (\E l \in locks : l.isLocked /\ [l EXCEPT !.isLocked = FALSE] \in locks')
              => /\ UnlockAnswered
                 /\ lastResponse'.code = "UNLOCKED"
       /\ \A e \in BagToSet(auditLog') :
             e.action = "FILING_UNLOCKED" => e.performedBy = "admin"]_vars

\* C16 witness: an unlock request of a non-admin was refused while the period
\* it names was locked.
C16_Witness ==
    /\ lastResponse.code = "INSUFFICIENT_PERMISSIONS"
    /\ isDateLocked(locks, FirstOfMonth(lastResponse.period[1], lastResponse.period[2]))

\* The step sends the response of a request: in the step that receives it or
\* in the last step of its handler.
Answered ==
    \/ served' = served + 1 /\ reqs' = reqs
    \/ \E c \in Clients : reqs[c].pc # "idle" /\ reqs'[c].pc = "idle"

\* The action kind GSTAuditLog names for a state-changing operation.
AuditKind(op) ==
    CASE op = "create" -> "TRANSACTION_CREATED"
      [] op = "update" -> "TRANSACTION_UPDATED"
      [] op = "delete" -> "TRANSACTION_DELETED"
      [] op = "lock" -> "FILING_LOCKED"
      [] op = "unlock" -> "FILING_UNLOCKED"
      [] OTHER -> ""

\* The entries the step adds to the audit log.
NewEntries ==
    {e \in BagToSet(auditLog') : CopiesIn(e, auditLog') > CopiesIn(e, auditLog)}

\* C17: every successful create, update, delete, lock and unlock adds exactly
\* one audit entry, of the kind of the operation; the entry of a delete
\* carries the invoice number and the date of the deleted record.
C17_OneAuditEntryPerOperation ==
    [][(/\ Answered
        /\ lastResponse'.op \in {"create", "update", "delete", "lock", "unlock"}
        /\ lastResponse'.status \in {200, 201})
          => /\ BagCardinality(auditLog') = BagCardinality(auditLog) + 1
             /\ \A e \in NewEntries : e.action = AuditKind(lastResponse'.op)
             /\ lastResponse'.op = "delete" =>
                   \A c \in Clients, e \in NewEntries :
                       (reqs[c].pc = "ctlDelete" /\ reqs'[c].pc = "idle"
                           /\ reqs[c].id \in DOMAIN transactions)
                         => /\ e.invoiceNumber = transactions[reqs[c].id].invoiceNumber
                            /\ e.month = transactions[reqs[c].id].date.month
                            /\ e.year = transactions[reqs[c].id].date.year]_vars

\* C18: when createLog rejects after a create, update, lock or unlock has
\* been persisted, the caller still receives the success response of the
\* operation.
C18_AuditFailureTolerated ==
    [][(/\ Answered
        /\ auditDown
        /\ lastResponse'.op \in {"create", "update", "lock", "unlock"}
        /\ (transactions' # transactions \/ locks' # locks))
          => lastResponse'.status \in {200, 201}]_vars

\* The decimal digit d as a character.
DigitChar(d) == <<"0", "1", "2", "3", "4", "5", "6", "7", "8", "9">>[d + 1]

\* FY followed by the last two decimal digits of the year.
FiscalYearName(year) ==
    "FY" \o DigitChar((year % 100) \div 10) \o DigitChar(year % 10)

\* C19: getFinancialYear gives a date of April to December the fiscal year of
\* its calendar year and a date of January to March that of the previous
\* year, written FY and the last two digits: March 31 of Y is in FY(Y-1),
\* April 1 of Y in FY(Y).
C19_FinancialYearBoundary ==
    allocation # NoAllocation =>
        /\ allocation.date.month >= 4 =>
              allocation.financialYear = FiscalYearName(allocation.date.year)
        /\ allocation.date.month <= 3 =>
              allocation.financialYear = FiscalYearName(allocation.date.year - 1)

\* C19 witness: March 31 of 2000 was given FY99 after April 1 of 2000 was
\* given FY00.
C19_Witness ==
    /\ allocation.date = [year |-> 2000, month |-> 3, day |-> 31]
    /\ allocation.financialYear = "FY99"
    /\ "INV-FY00-00001" \in BagToSet(issued)

\* C20: every invoice number allocated, after any number of earlier
\* allocations in its fiscal year, matches INV-FY<2 digits>-<5 digits>, the
\* format the Transaction schema accepts.
C20_AllocatedMatchesFormat ==
    \A invoiceNumber \in BagToSet(issued) : MatchesInvoiceNumber(invoiceNumber)

\* C21: every stored transaction, whichever operation wrote it, has
\* commissionAmount + returnAmount equal to totalReceived and netIncome equal
\* to commissionAmount - gstAmount, each within 0.01.
C21_StoredDerivedFields ==
    \A id \in DOMAIN transactions :
        LET doc == transactions[id]
        IN /\ Abs(doc.commissionAmount + doc.returnAmount - doc.totalReceived) <= 1
           /\ Abs(doc.netIncome - (doc.commissionAmount - doc.gstAmount)) <= 1

\* C22: the lock test of an update uses the stored date of the record only:
\* checkFilingLock reads the date of the stored record, refuses exactly when
\* that date is locked, and an update whose new date lies in a locked period
\* while the stored date does not is taken on and saved with the new date.
C22_LockTestUsesStoredDate ==
    [][\A c \in Clients :
          /\ (reqs[c].pc = "idle" /\ reqs'[c].op = "update")
                => reqs'[c].txDate = transactions[reqs'[c].id].date
          /\ (MwCheckStep(c) /\ reqs[c].op = "update")
                => (lastResponse'.code = "FILING_LOCKED" /\ reqs'[c].pc = "idle")
                       <=> isDateLocked(locks, reqs[c].txDate)
          /\ (/\ MwCheckStep(c) /\ reqs[c].op = "update"
              /\ reqs[c].date # NoDate
              /\ isDateLocked(locks, reqs[c].date)
              /\ ~isDateLocked(locks, reqs[c].txDate))
                => reqs'[c].pc = "ctlFetch"
          /\ (/\ reqs[c].op = "update" /\ reqs[c].pc = "save" /\ reqs'[c].pc = "idle"
              /\ lastResponse'.code = "UPDATED"
              /\ reqs[c].date # NoDate
              /\ reqs[c].date # reqs[c].doc.date)
                => transactions'[reqs[c].id].date = reqs[c].date]_vars

\* C22 witness: a transaction created on 2000-03-31 was updated to 2000-04-01,
\* a day of the locked April 2000.
C22_Witness ==
    /\ lastResponse.op = "update" /\ lastResponse.code = "UPDATED"
    /\ \E id \in DOMAIN transactions :
          /\ transactions[id].date = [year |-> 2000, month |-> 4, day |-> 1]
          /\ transactions[id].invoiceNumber = "INV-FY99-00001"
          /\ isDateLocked(locks, transactions[id].date)

\* A create request that had its number is answered with a failure in this step.
CreateFailsAfterAllocation(c) ==
    /\ reqs[c].op = "create" /\ reqs[c].pc = "persist"
    /\ reqs'[c].pc = "idle"
    /\ lastResponse'.status # 201

\* C23: a number once allocated is never issued again: no step issues a
\* string issued before, no counter ever goes back, a create failing after its
\* allocation leaves the counter as it is and stores no transaction with the
\* number, and a delete leaves every counter as it is.
C23_NoReissue ==
    [][/\ \A s \in BagToSet(issued) : CopiesIn(s, issued') = CopiesIn(s, issued)
       /\ \A fy \in DOMAIN invoiceSeries :
             fy \in DOMAIN invoiceSeries' /\ invoiceSeries'[fy] >= invoiceSeries[fy]
       /\ \A c \in Clients :
             CreateFailsAfterAllocation(c)
                => /\ invoiceSeries' = invoiceSeries
                   /\ \A id \in DOMAIN transactions' :
                         transactions'[id].invoiceNumber # reqs[c].invoiceNumber
       /\ \A c \in Clients :
             (reqs[c].pc = "ctlDelete" /\ reqs'[c].pc = "idle")
                => invoiceSeries' = invoiceSeries /\ issued' = issued]_vars

\* C23 witness: INV-FY99-00001 was lost by a create that failed after its
\* allocation, and the next create of the fiscal year was given INV-FY99-00002.
C23_Witness ==
    /\ lastResponse.code = "CREATED"
    /\ lastResponse.invoiceNumber = "INV-FY99-00002"
    /\ CopiesIn("INV-FY99-00001", issued) = 1
    /\ \A id \in DOMAIN transactions :
          transactions[id].invoiceNumber # "INV-FY99-00001"
    /\ \A c \in Clients : reqs[c].pc = "idle"
    /\ BagCardinality(auditLog) = 1

\* C24: an update or delete refused for a filing lock writes, in the step
\* that answers FILING_LOCKED, exactly one audit entry: VALIDATION_FAILED with
\* status FAILED, the month and year of the locked period, the operation and
\* the actor.
C24_RefusalAudited ==
    [][\A c \in Clients :
          (MwCheckStep(c) /\ lastResponse'.code = "FILING_LOCKED" /\ reqs'[c].pc = "idle")
            => /\ BagCardinality(auditLog') = BagCardinality(auditLog) + 1
               /\ \A e \in NewEntries :
                     /\ e.action = "VALIDATION_FAILED"
                     /\ e.status = "FAILED"
                     /\ e.month = reqs[c].txDate.month
                     /\ e.year = reqs[c].txDate.year
                     /\ isDateLocked(locks, FirstOfMonth(e.month, e.year))
                     /\ e.operation = (IF reqs[c].op = "update" THEN "PUT" ELSE "DELETE")
                     /\ e.performedBy = reqs[c].user
                     /\ e.entityId = reqs[c].id]_vars

\* C24 witness: a delete was refused for the lock and its refusal is in the
\* audit log.
C24_Witness ==
    /\ lastResponse.op = "delete" /\ lastResponse.code = "FILING_LOCKED"
    /\ \E e \in BagToSet(auditLog) :
          e.action = "VALIDATION_FAILED" /\ e.operation = "DELETE"

\* C25: an update whose fields recomputed from the stored values and the
\* patch fail the check of validateCalculations is rejected and the stored
\* record is left unchanged.
C25_UpdateRevalidates ==
    [][\A c \in Clients :
          (/\ reqs[c].op = "update" /\ reqs[c].pc = "save" /\ reqs'[c].pc = "idle"
           /\ LET assigned == UpdatedTransaction(reqs[c], reqs[c].doc)
              IN \/ Abs(assigned.commissionAmount + assigned.returnAmount
                        - assigned.totalReceived) >= 1
                 \/ Abs(assigned.commissionAmount - assigned.gstAmount
                        - assigned.netIncome) >= 1)
            => /\ lastResponse'.status \notin {200, 201}
               /\ transactions' = transactions]_vars

\* C26: the four derived fields of every stored transaction are those
\* calculateCommission gives for its stored totalReceived and
\* commissionPercent at the configured rate.
C26_DerivedFollowRaw ==
    \A id \in DOMAIN transactions :
        LET doc == transactions[id]
            calculations ==
                calculateCommission(doc.totalReceived, doc.commissionPercent, GstRate)
        IN /\ calculations.ok
           /\ <<doc.commissionAmount, doc.gstAmount, doc.netIncome, doc.returnAmount>>
                = <<calculations.commissionAmount, calculations.gstAmount,
                    calculations.netIncome, calculations.returnAmount>>

\* Two lock documents of the same period.
SamePeriod(l1, l2) ==
    /\ l1.financialYear = l2.financialYear
    /\ l1.month = l2.month
    /\ l1.year = l2.year

\* C27: a period has no record, a locked record or an unlocked record: there
\* is at most one record per (financialYear, month, year) under every
\* interleaving of lock and unlock requests, and a record once created is
\* never removed.
C27_OneRecordPerPeriod ==
    [][/\ \A l1, l2 \in locks' : SamePeriod(l1, l2) => l1 = l2
       /\ \A l \in locks' : l.isLocked \in BOOLEAN
       /\ \A l \in locks : \E l2 \in locks' : SamePeriod(l, l2)]_vars

\* C27 witness: two overlapping lock requests of the same period were both
\* answered 201 and the period has one record.
C27_Witness ==
    /\ Cardinality(locks) = 1
    /\ \E l \in locks : l.isLocked /\ l.lockedAt = 2
    /\ BagCardinality(auditLog) = 2
    /\ \A e \in BagToSet(auditLog) : e.action = "FILING_LOCKED"

\* C28: once the lock of a period is recorded, no stored transaction dated in
\* the period is modified or removed, also when the update or delete request
\* overlaps the lock request.
C28_NoWriteAfterLock ==
    [][\A id \in DOMAIN transactions :
          isDateLocked(locks, transactions[id].date)
            => /\ id \in DOMAIN transactions'
               /\ transactions'[id] = transactions[id]]_vars

\* C29: distinct (month, year) pairs of the years 2000..2100 have distinct
\* filingPeriod strings, so lockMonth of a valid period meets no document of
\* another period with its filingPeriod and is answered 201.
C29_NoCrossPeriodConflict ==
    [][\A c \in Clients :
          (reqs[c].op = "lock" /\ reqs[c].pc = "upsert" /\ reqs'[c].pc = "idle")
            => /\ \A l \in locks :
                     l.filingPeriod = FilingPeriod(reqs[c].date.month, reqs[c].date.year)
                        => l.month = reqs[c].date.month /\ l.year = reqs[c].date.year
               /\ lastResponse'.status = 201]_vars

\* C30: every stored transaction with an invoice number has the financialYear
\* of its stored date, in its financialYear field and in its invoice number.
C30_FiscalYearOfStoredDate ==
    \A id \in DOMAIN transactions :
        transactions[id].invoiceNumber # ""
          => /\ transactions[id].financialYear = getFinancialYear(transactions[id].date)
             /\ SubSeq(transactions[id].invoiceNumber, 5, 8)
                   = getFinancialYear(transactions[id].date)

\* C10: every transaction createTransaction persists passes
\* validateGSTCompliance with zero errors, whatever tax rate is configured.
C10_CreatedPassesBatchValidator ==
    [][\A c \in Clients :
          (/\ reqs[c].op = "create" /\ reqs[c].pc = "persist" /\ reqs'[c] = IdleReq
           /\ lastResponse'.status = 201)
              => Len(validateGSTCompliance(<<transactions'[nextId]>>).errors) = 0]_vars

\* round2 of the specification: half away from zero, to two decimals.
Round2(num, den) ==
    IF num >= 0 THEN (2 * num + den) \div (2 * den)
    ELSE -((2 * (-num) + den) \div (2 * den))

\* The per-step rule of the specification: every step starts from the
\* rounded result of the step before.
PerStepRule(total, percent, rate) ==
    LET commissionAmount == Round2(total * percent, 100)
        taxAmount == Round2(commissionAmount * rate, 100)
    IN [ok |-> TRUE,
        commissionAmount |-> commissionAmount,
        gstAmount |-> taxAmount,
        netIncome |-> Round2(commissionAmount - taxAmount, 1),
        returnAmount |-> Round2(total - commissionAmount, 1)]

\* C7: for all valid inputs calculateCommission returns exactly the values of
\* the per-step rule (tax from the rounded commission, net income and return
\* amount from the rounded commission and tax).
C7_PerStepRule ==
    ValidRun(runA) => runA.out = PerStepRule(runA.total, runA.percent, runA.rate)

C9_TaxBaseIsolation ==
    (/\ ValidRun(runA) /\ ValidRun(runB)
     /\ runA.rate = runB.rate
     /\ runA.out.commissionAmount = runB.out.commissionAmount)
        => runA.out.gstAmount = runB.out.gstAmount

====
